---- MODULE Spec2Model ----
(***************************************************************************)
(* img4web: walk a folder, classify files as images or videos, re-encode   *)
(* each into <folder>-compressed/ mirroring the relative path.             *)
(*                                                                         *)
(* The model follows the newest program text (src/unnamed/part_000, lines  *)
(* 111-412).  Strings are sequences of one-character strings so that the   *)
(* path and regular-expression manipulations are computed, not assumed.    *)
(***************************************************************************)
EXTENDS Integers, Sequences, FiniteSets, TLC

(***************************************************************************)
(* Bounds of the model.                                                    *)
(***************************************************************************)
\* largest number of files placed in the input tree
MaxFiles == 2

(***************************************************************************)
(* Generic string helpers (JavaScript String methods).                     *)
(***************************************************************************)
\* the value of an absent optional number (maxWidth?, width?, height?)
Undefined == -1

Min(a, b) == IF a < b THEN a ELSE b

\* String.prototype.toLowerCase on one character of the model's alphabet
LowerChar(c) ==
  CASE c = "P" -> "p" [] c = "N" -> "n" [] c = "G" -> "g"
    [] c = "M" -> "m" [] c = "O" -> "o" [] c = "V" -> "v"
    [] OTHER -> c

toLowerCase(s) == [k \in 1..Len(s) |-> LowerChar(s[k])]

\* s.slice(from) with a 1-based index
Drop(s, n) == SubSeq(s, n + 1, Len(s))
Take(s, n) == SubSeq(s, 1, n)

EndsWith(s, suffix) ==
  /\ Len(suffix) <= Len(s)
  /\ Drop(s, Len(s) - Len(suffix)) = suffix

includes(arr, x) == \E k \in 1..Len(arr) : arr[k] = x

\* index of the last occurrence of character c in s, 0 when there is none
LastIndexOf(s, c) ==
  IF \E k \in 1..Len(s) : s[k] = c
    THEN CHOOSE k \in 1..Len(s) : s[k] = c /\ \A m \in (k+1)..Len(s) : s[m] # c
    ELSE 0

\* String.prototype.trim for the space character
RECURSIVE TrimLeft(_)
TrimLeft(s) == IF Len(s) > 0 /\ s[1] = " " THEN TrimLeft(Tail(s)) ELSE s

RECURSIVE TrimRight(_)
TrimRight(s) ==
  IF Len(s) > 0 /\ s[Len(s)] = " " THEN TrimRight(Take(s, Len(s) - 1)) ELSE s

trim(s) == TrimRight(TrimLeft(s))

\* s.replace(/\\ /g, " "): every backslash followed by a space becomes a space
RECURSIVE UnescapeSpaces(_)
UnescapeSpaces(s) ==
  IF Len(s) < 2 THEN s
  ELSE IF s[1] = "\\" /\ s[2] = " " THEN <<" ">> \o UnescapeSpaces(Drop(s, 2))
  ELSE <<s[1]>> \o UnescapeSpaces(Tail(s))

\* s.replace(/\/$/, ""): one trailing slash is removed
StripTrailingSlash(s) ==
  IF Len(s) > 0 /\ s[Len(s)] = "/" THEN Take(s, Len(s) - 1) ELSE s

normalizePath(input) == StripTrailingSlash(UnescapeSpaces(trim(input)))

\* s.replace(/\.[^.]+$/, ext): the match is the last dot of the whole string
\* when at least one character follows it (none of them a dot, by lastness)
ReplaceLastExt(s, ext) ==
  LET d == LastIndexOf(s, ".") IN
  IF d > 0 /\ d < Len(s) THEN Take(s, d - 1) \o ext ELSE s

(***************************************************************************)
(* node:path (posix).                                                      *)
(***************************************************************************)
\* the segments of a path between slashes, empty segments dropped
RECURSIVE Split(_)
Split(s) ==
  IF Len(s) = 0 THEN <<>>
  ELSE IF s[1] = "/" THEN Split(Tail(s))
  ELSE LET rest == Tail(s)
           more == Split(rest)
       IN IF Len(rest) > 0 /\ rest[1] # "/"
            THEN <<(<<s[1]>> \o more[1])>> \o Tail(more)
            ELSE <<(<<s[1]>>)>> \o more

RECURSIVE JoinSegs(_)
JoinSegs(segs) ==
  IF Len(segs) = 0 THEN <<>>
  ELSE IF Len(segs) = 1 THEN segs[1]
  ELSE segs[1] \o <<"/">> \o JoinSegs(Tail(segs))

\* normalizeString: resolves "." and ".." segments
RECURSIVE NormSegs(_, _, _)
NormSegs(segs, acc, allowAboveRoot) ==
  IF Len(segs) = 0 THEN acc
  ELSE LET h == segs[1] IN
    IF h = <<".">> THEN NormSegs(Tail(segs), acc, allowAboveRoot)
    ELSE IF h = <<".", ".">> THEN
      IF Len(acc) > 0 /\ acc[Len(acc)] # <<".", ".">>
        THEN NormSegs(Tail(segs), Take(acc, Len(acc) - 1), allowAboveRoot)
      ELSE IF allowAboveRoot
        THEN NormSegs(Tail(segs), Append(acc, h), allowAboveRoot)
      ELSE NormSegs(Tail(segs), acc, allowAboveRoot)
    ELSE NormSegs(Tail(segs), Append(acc, h), allowAboveRoot)

\* path.normalize
normalize(path) ==
  IF Len(path) = 0 THEN <<".">>
  ELSE LET isAbsolute == path[1] = "/"
           trailingSep == path[Len(path)] = "/"
           body == JoinSegs(NormSegs(Split(path), <<>>, ~isAbsolute))
       IN IF Len(body) = 0
            THEN (IF isAbsolute THEN <<"/">>
                  ELSE IF trailingSep THEN <<".", "/">> ELSE <<".">>)
            ELSE (IF isAbsolute THEN <<"/">> ELSE <<>>) \o body
                 \o (IF trailingSep THEN <<"/">> ELSE <<>>)

\* path.join of two arguments
join(a, b) ==
  LET joined == IF Len(a) = 0 THEN b
                ELSE IF Len(b) = 0 THEN a
                ELSE a \o <<"/">> \o b
  IN IF Len(joined) = 0 THEN <<".">> ELSE normalize(joined)

\* path.dirname: the scan from the right for the first slash that follows a
\* non-slash character, index 1 (the root) excluded
dirname(path) ==
  IF Len(path) = 0 THEN <<".">>
  ELSE LET hasRoot == path[1] = "/"
           cand == {k \in 2..Len(path) :
                      /\ path[k] = "/"
                      /\ \E m \in (k+1)..Len(path) : path[m] # "/"}
       IN IF cand = {} THEN (IF hasRoot THEN <<"/">> ELSE <<".">>)
          ELSE LET end == CHOOSE k \in cand : \A m \in cand : m <= k
               IN IF hasRoot /\ end = 2 THEN <<"/", "/">>
                  ELSE Take(path, end - 1)

\* path.basename without a suffix: the last segment, trailing slashes ignored
basename(path) ==
  LET nonSlash == {k \in 1..Len(path) : path[k] # "/"} IN
  IF nonSlash = {} THEN <<>>
  ELSE LET end == CHOOSE k \in nonSlash : \A m \in nonSlash : m <= k
           slashes == {k \in 1..end : path[k] = "/"}
           start == IF slashes = {} THEN 1
                    ELSE 1 + (CHOOSE k \in slashes : \A m \in slashes : m <= k)
       IN SubSeq(path, start, end)

\* path.extname: the loop from the right over the last segment, carrying
\* startDot, end and preDotState (0-based indices, -1 for unset, as in node)
RECURSIVE ExtScan(_, _, _)
ExtScan(path, k, st) ==
  IF k < 0 THEN st
  ELSE LET c == path[k + 1] IN
    IF c = "/" THEN
      IF ~st.matchedSlash THEN [st EXCEPT !.startPart = k + 1]
      ELSE ExtScan(path, k - 1, st)
    ELSE
      LET s1 == IF st.end = -1
                  THEN [st EXCEPT !.matchedSlash = FALSE, !.end = k + 1]
                  ELSE st
          s2 == IF c = "."
                  THEN (IF s1.startDot = -1 THEN [s1 EXCEPT !.startDot = k]
                        ELSE IF s1.preDotState # 1
                          THEN [s1 EXCEPT !.preDotState = 1]
                        ELSE s1)
                  ELSE (IF s1.startDot # -1
                          THEN [s1 EXCEPT !.preDotState = -1]
                          ELSE s1)
      IN ExtScan(path, k - 1, s2)

extname(path) ==
  LET st == ExtScan(path, Len(path) - 1,
                    [startDot |-> -1, startPart |-> 0, end |-> -1,
                     matchedSlash |-> TRUE, preDotState |-> 0])
  IN IF \/ st.startDot = -1
        \/ st.end = -1
        \/ st.preDotState = 0
        \/ /\ st.preDotState = 1
           /\ st.startDot = st.end - 1
           /\ st.startDot = st.startPart + 1
       THEN <<>>
       ELSE SubSeq(path, st.startDot + 1, st.end)

\* process.cwd()
Cwd == <<"/", "w">>

\* path.resolve of one argument, as the list of segments below the root
ResolveSegs(path) ==
  IF Len(path) > 0 /\ path[1] = "/"
    THEN NormSegs(Split(path), <<>>, FALSE)
    ELSE NormSegs(Split(Cwd) \o Split(path), <<>>, FALSE)

resolve(path) == <<"/">> \o JoinSegs(ResolveSegs(path))

\* length of the longest common prefix of two segment lists
RECURSIVE CommonLen(_, _)
CommonLen(a, b) ==
  IF Len(a) = 0 \/ Len(b) = 0 \/ a[1] # b[1] THEN 0
  ELSE 1 + CommonLen(Tail(a), Tail(b))

\* path.relative
relative(from, to) ==
  LET f == ResolveSegs(from)
      t == ResolveSegs(to)
      n == CommonLen(f, t)
      ups == [k \in 1..(Len(f) - n) |-> <<".", ".">>]
  IN JoinSegs(ups \o Drop(t, n))

(***************************************************************************)
(* Program constants.                                                      *)
(***************************************************************************)
IMAGE_EXTS ==
  << <<".", "j", "p", "g">>, <<".", "j", "p", "e", "g">>,
     <<".", "p", "n", "g">>, <<".", "w", "e", "b", "p">>,
     <<".", "a", "v", "i", "f">>, <<".", "t", "i", "f", "f">>,
     <<".", "g", "i", "f">> >>

VIDEO_EXTS ==
  << <<".", "m", "p", "4">>, <<".", "m", "o", "v">>, <<".", "a", "v", "i">>,
     <<".", "m", "k", "v">>, <<".", "w", "e", "b", "m">>,
     <<".", "m", "4", "v">> >>

\* the sizes an encode may leave in its output file
OutSizes == {150, 2048}

\* the values of the "Max width" select
WidthChoices == {0, 400, 800, 1200, 1920, 2560}

WebpQuality == 75
VideoCrf == 28

(***************************************************************************)
(* The file system the program is run on.  An entry is a directory or a    *)
(* file, named by its absolute segments; the order of the sequence is the  *)
(* order readdir lists entries in.                                         *)
(***************************************************************************)
Dir(segs) ==
  [segs |-> segs, isDir |-> TRUE, size |-> 0, width |-> 0, height |-> 0]
File(segs, size, width, height) ==
  [segs |-> segs, isDir |-> FALSE, size |-> size, width |-> width,
   height |-> height]

W == <<"w">>
D == <<"d">>

\* always present: /w, the input folder /w/d and an empty folder "/w/e f"
BaseEntries == << Dir(<<W>>), Dir(<<W, D>>), Dir(<<W, <<"e", " ", "f">>>>) >>

\* the files a tree is drawn from, each with the directories above it
Pool ==
  << << File(<<W, D, <<"a", ".", "p", "n", "g">>>>, 700, 300, 200) >>,
     << File(<<W, D, <<"a", ".", "j", "p", "g">>>>, 900, 1000, 500) >>,
     << File(<<W, D, <<".", "p", "n", "g">>>>, 5, 10, 10) >>,
     << File(<<W, D, <<"n", ".", "t", "x", "t">>>>, 6, 0, 0) >>,
     << Dir(<<W, D, <<"k", ".", "p", "n", "g">>>>),
        File(<<W, D, <<"k", ".", "p", "n", "g">>,
               <<"a", ".", "b", ".", "g", "i", "f">>>>, 300, 500, 400) >>,
     << Dir(<<W, D, <<"s", ".", "v">>>>),
        Dir(<<W, D, <<"s", ".", "v">>, <<"t">>>>),
        File(<<W, D, <<"s", ".", "v">>, <<"t">>, <<"c", ".", "M", "O", "V">>>>,
             1048576, 640, 480) >>,
     << File(<<W, D, <<"R">>>>, 7, 0, 0) >> >>

RECURSIVE Concat(_)
Concat(seqs) == IF Len(seqs) = 0 THEN <<>> ELSE seqs[1] \o Concat(Tail(seqs))

Reverse(s) == [k \in 1..Len(s) |-> s[Len(s) + 1 - k]]

\* the chosen pool items in ascending order
RECURSIVE Chosen(_, _)
Chosen(S, k) ==
  IF k > Len(Pool) THEN <<>>
  ELSE (IF k \in S THEN <<Pool[k]>> ELSE <<>>) \o Chosen(S, k + 1)

\* the file system holding the pool items S; desc reverses the listing order
\* of the items (directories stay listed before what they hold)
FsOf(S, desc) ==
  BaseEntries \o Concat(IF desc THEN Reverse(Chosen(S, 1)) ELSE Chosen(S, 1))

Trees == {S \in SUBSET (1..Len(Pool)) : Cardinality(S) <= MaxFiles}

\* the tree every folder path is tried on
BaseTree == {1, 5}

\* what may be typed at the folder prompt or given as process.argv[2]
PathD == <<"d">>
FolderPaths ==
  { PathD,
    <<"d", "/">>,
    <<" ", "d", " ">>,
    <<".", "/", "d">>,
    <<"/", "w", "/", "d">>,
    <<".">>,
    <<".", ".">>,
    <<"/", "/">>,
    <<"/">>,
    <<"d", "/", ".">>,
    <<"n", "o", "p", "e">>,
    <<"d", "/", "a", ".", "p", "n", "g">>,
    <<"e", "\\", " ", "f">>,
    <<" ">> }

PathsFor(S) == IF S = BaseTree THEN FolderPaths ELSE {PathD}

\* the trees also listed in descending order: the tree of the folder paths and
\* the two files that differ in their extension only
BothOrders == {BaseTree, {1, 2}}

OrdersFor(S) == IF S \in BothOrders THEN BOOLEAN ELSE {FALSE}

(***************************************************************************)
(* fs/promises on a file system F.                                         *)
(***************************************************************************)
Lookup(F, path) ==
  LET segs == ResolveSegs(path) IN
  {k \in 1..Len(F) : F[k].segs = segs}

Exists(F, path) == Len(path) > 0 /\ (ResolveSegs(path) = <<>> \/ Lookup(F, path) # {})

\* stat(path): the entry at the path; the root is a directory
stat(F, path) ==
  IF ResolveSegs(path) = <<>> THEN Dir(<<>>)
  ELSE F[CHOOSE k \in Lookup(F, path) : TRUE]

\* readdir(dir, {withFileTypes: true}): the entries directly below dir
readdir(F, dir) ==
  LET segs == ResolveSegs(dir)
      isChild(e) == Len(e.segs) = Len(segs) + 1 /\ Take(e.segs, Len(segs)) = segs
      kids == SelectSeq(F, isChild)
  IN [k \in 1..Len(kids) |->
        [name |-> kids[k].segs[Len(kids[k].segs)], isDirectory |-> kids[k].isDir]]

verifyFolder(F, folderPath) ==
  IF Exists(F, folderPath) THEN stat(F, folderPath).isDir ELSE FALSE

(***************************************************************************)
(* findMedia.                                                              *)
(***************************************************************************)
\* a faulty variant of MediaType: the extension is compared without lower-casing
MediaTypeCaseSensitive(name) ==
  LET ext == extname(name) IN
  IF includes(IMAGE_EXTS, ext) THEN "image"
  ELSE IF includes(VIDEO_EXTS, ext) THEN "video"
  ELSE "none"

\* the classification of a file name: isImage, isVideo and the type chosen
MediaType(name) ==
  LET ext == toLowerCase(extname(name)) IN
  IF includes(IMAGE_EXTS, ext) THEN "image"
  ELSE IF includes(VIDEO_EXTS, ext) THEN "video"
  ELSE "none"

RECURSIVE findMedia(_, _, _)
RECURSIVE WalkEntries(_, _, _, _)

\* the body of the for loop of findMedia over the entries still to visit
WalkEntries(F, entries, dir, baseDir) ==
  IF Len(entries) = 0 THEN <<>>
  ELSE LET entry == entries[1]
           fullPath == join(dir, entry.name)
           here ==
             IF entry.isDirectory THEN findMedia(F, fullPath, baseDir)
             ELSE LET type == MediaType(entry.name) IN
               IF type # "none"
                 THEN << [path |-> fullPath,
                          name |-> entry.name,
                          relativePath |-> relative(baseDir, fullPath),
                          size |-> stat(F, fullPath).size,
                          type |-> type,
                          width |-> Undefined,
                          height |-> Undefined] >>
                 ELSE <<>>
       IN here \o WalkEntries(F, Tail(entries), dir, baseDir)

findMedia(F, dir, baseDir) == WalkEntries(F, readdir(F, dir), dir, baseDir)

(***************************************************************************)
(* Helpers of main.                                                        *)
(***************************************************************************)
\* (x).toFixed(d) of p/q scaled by 10^d, as an integer: nearest, halves up
RoundDiv(p, q) == (2 * p + q) \div (2 * q)

formatBytes(bytes) ==
  IF bytes < 1024 THEN [value |-> bytes, decimals |-> 0, unit |-> "B"]
  ELSE IF bytes < 1024 * 1024
    THEN [value |-> RoundDiv(bytes * 10, 1024), decimals |-> 1, unit |-> "KB"]
  ELSE [value |-> RoundDiv(bytes * 100, 1024 * 1024), decimals |-> 2,
        unit |-> "MB"]

RECURSIVE SumSize(_, _)
\* media.slice(0, k).reduce((sum, m) => sum + m.size, 0)
SumSize(media, k) ==
  IF k = 0 THEN 0 ELSE SumSize(media, k - 1) + media[k].size

CountType(media, type) ==
  Cardinality({k \in 1..Len(media) : media[k].type = type})

\* a faulty variant of IsCliMode: the command-line folder does not select CLI mode
IsCliModeNever(cliFolder) == FALSE

\* !!cliFolder for a folder returned by getFolderFromCli
IsCliMode(cliFolder) == Len(cliFolder) > 0

\* `${basename(folderPath)}-compressed` joined to dirname(folderPath)
OutputDirOf(folder) ==
  join(dirname(folder), basename(folder) \o <<"-", "c", "o", "m", "p", "r", "e", "s", "s", "e", "d">>)

ExtWebp == <<".", "w", "e", "b", "p">>
ExtMp4 == <<".", "m", "p", "4">>

\* a faulty variant of OutputRelative: the pattern /\..+$/ matches from the first dot
OutputRelativeFirstDot(file) ==
  LET ext == IF file.type = "image" THEN ExtWebp ELSE ExtMp4
      rel == file.relativePath
      dots == {k \in 1..Len(rel) : rel[k] = "."}
      d == IF dots = {} THEN 0 ELSE CHOOSE k \in dots : \A m \in dots : k <= m
  IN IF d > 0 /\ d < Len(rel) THEN Take(rel, d - 1) \o ext ELSE rel

\* processFile: file.relativePath.replace(/\.[^.]+$/, ext)
OutputRelative(file) ==
  LET ext == IF file.type = "image" THEN ExtWebp ELSE ExtMp4
  IN ReplaceLastExt(file.relativePath, ext)

\* maxWidth && maxWidth > 0
Truthy(maxWidth) == maxWidth # Undefined /\ maxWidth # 0

\* What an encode is asked to do.  resize/withoutEnlargement are the sharp
\* resize call, vf is W of the ffmpeg filter scale='min(W,iw)':-2 and vfMin
\* says that the filter takes the minimum with the input width.
EncodeJob(tool, input, output, resize, vf, vfMin) ==
  [tool |-> tool, input |-> input, output |-> output,
   resize |-> resize, withoutEnlargement |-> resize # Undefined,
   format |-> IF tool = "sharp" THEN "webp" ELSE "mp4",
   quality |-> IF tool = "sharp" THEN WebpQuality ELSE Undefined,
   vcodec |-> IF tool = "ffmpeg" THEN "libx264" ELSE "",
   crf |-> IF tool = "ffmpeg" THEN VideoCrf ELSE Undefined,
   acodec |-> IF tool = "ffmpeg" THEN "aac" ELSE "",
   vf |-> vf, vfMin |-> vfMin]

\* a faulty variant of compressImage: resize is called whatever maxWidth is
compressImageAlwaysResize(inputPath, outputPath, maxWidth) ==
  EncodeJob("sharp", inputPath, outputPath,
            IF Truthy(maxWidth) /\ maxWidth > 0 THEN maxWidth ELSE 1920,
            Undefined, FALSE)

compressImage(inputPath, outputPath, maxWidth) ==
  EncodeJob("sharp", inputPath, outputPath,
            IF Truthy(maxWidth) /\ maxWidth > 0 THEN maxWidth ELSE Undefined,
            Undefined, FALSE)

\* a faulty variant of compressVideo: the filter is scale=W:-2, without min(W,iw)
compressVideoNoMin(inputPath, outputPath, maxWidth) ==
  IF Truthy(maxWidth) /\ maxWidth > 0
    THEN EncodeJob("ffmpeg", inputPath, outputPath, Undefined, maxWidth, FALSE)
    ELSE EncodeJob("ffmpeg", inputPath, outputPath, Undefined, Undefined, FALSE)

compressVideo(inputPath, outputPath, maxWidth) ==
  IF Truthy(maxWidth) /\ maxWidth > 0
    THEN EncodeJob("ffmpeg", inputPath, outputPath, Undefined, maxWidth, TRUE)
    ELSE EncodeJob("ffmpeg", inputPath, outputPath, Undefined, Undefined, FALSE)

\* the job processFile hands to compressImage or compressVideo
processFile(file, outDir, maxWidth) ==
  LET outputPath == join(outDir, OutputRelative(file)) IN
  IF file.type = "image"
    THEN compressImage(file.path, outputPath, maxWidth)
    ELSE compressVideo(file.path, outputPath, maxWidth)

\* the width the encoder produces for a job on an input of width iw
\* (sharp's withoutEnlargement, ffmpeg's min(W,iw))
TargetWidth(job, iw) ==
  IF job.tool = "sharp"
    THEN (IF job.resize = Undefined THEN iw
          ELSE IF job.withoutEnlargement THEN Min(job.resize, iw)
          ELSE job.resize)
    ELSE (IF job.vf = Undefined THEN iw
          ELSE IF job.vfMin THEN Min(job.vf, iw)
          ELSE job.vf)

Event(kind, what, idx, nums, sizes) ==
  [kind |-> kind, what |-> what, idx |-> idx, nums |-> nums, sizes |-> sizes]

(***************************************************************************)
(* State.                                                                  *)
(***************************************************************************)
VARIABLES
  argv,            \* process.argv from index 2 on
  typed,           \* what the user types at the folder prompt
  fs,              \* the file system as found at start
  pc,              \* where main is
  folderPath, isCliMode, allMedia, totalSize, mode, outputDir,
  dimIdx,          \* position of the loop of loadDimensions
  i,               \* the loop variable of main, counted from 1
  maxWidth,        \* the maxWidth of the current iteration
  job,             \* the encode awaited by the current iteration
  totalOriginal, totalCompressed,
  inflight,        \* indices of the files whose encode has started and not ended
  writes,          \* the output files written, in order
  dirsMade,        \* directories created by mkdir
  log,             \* what was shown: prompts and log lines
  chosen,          \* the answers given at the max-width prompts
  failed,          \* the operations that have failed so far
  exitCode         \* -1 while running

vars ==
  <<argv, typed, fs, pc, folderPath, isCliMode, allMedia, totalSize, mode,
    outputDir, dimIdx, i, maxWidth, job, totalOriginal, totalCompressed,
    inflight, writes, dirsMade, log, chosen, failed, exitCode>>

NoJob == EncodeJob("", <<>>, <<>>, Undefined, Undefined, FALSE)

Init ==
  /\ \E S \in Trees : \E desc \in OrdersFor(S) :
       /\ fs = FsOf(S, desc)
       /\ \/ argv = <<>> /\ typed \in PathsFor(S)
          \/ typed = <<>> /\ \E path \in PathsFor(S) : argv = <<path>>
  /\ pc = "start"
  /\ folderPath = <<>>
  /\ isCliMode = FALSE
  /\ allMedia = <<>>
  /\ totalSize = 0
  /\ mode = ""
  /\ outputDir = <<>>
  /\ dimIdx = 1
  /\ i = 1
  /\ maxWidth = Undefined
  /\ job = NoJob
  /\ totalOriginal = 0
  /\ totalCompressed = 0
  /\ inflight = {}
  /\ writes = <<>>
  /\ dirsMade = {}
  /\ log = <<>>
  /\ chosen = <<>>
  /\ failed = {}
  /\ exitCode = -1

\* process.exit(code) after the lines shown
Exit(code, lines) ==
  /\ pc' = "exited"
  /\ exitCode' = code
  /\ log' = log \o lines

(***************************************************************************)
(* main.                                                                   *)
(***************************************************************************)
\* getFolderFromCli, and the start of getFolderInteractive when it returns null
Start ==
  /\ pc = "start"
  /\ IF Len(argv) > 0 /\ Len(argv[1]) > 0
       THEN LET cliFolder == normalizePath(argv[1]) IN
            IF ~verifyFolder(fs, cliFolder)
              THEN /\ Exit(1, <<Event("error", "Invalid folder path", 0, <<>>, <<>>)>>)
                   /\ UNCHANGED <<folderPath, isCliMode>>
              ELSE /\ folderPath' = cliFolder
                   /\ isCliMode' = IsCliMode(cliFolder)
                   /\ pc' = "find"
                   /\ UNCHANGED <<log, exitCode>>
       ELSE /\ pc' = "folderPrompt"
            /\ log' = Append(log, Event("prompt", "folder", 0, <<>>, <<>>))
            /\ UNCHANGED <<folderPath, isCliMode, exitCode>>
  /\ UNCHANGED <<argv, typed, fs, allMedia, totalSize, mode, outputDir, dimIdx,
                 i, maxWidth, job, totalOriginal, totalCompressed, inflight,
                 writes, dirsMade, chosen, failed>>

\* getFolderInteractive once the text prompt is answered with a value that
\* passes validate
AnswerFolder ==
  /\ pc = "folderPrompt"
  /\ Len(trim(typed)) > 0
  /\ LET path == normalizePath(typed) IN
     IF ~verifyFolder(fs, path)
       THEN /\ Exit(1, <<Event("error", "Invalid folder path", 0, <<>>, <<>>)>>)
            /\ UNCHANGED folderPath
       ELSE /\ folderPath' = path
            /\ pc' = "find"
            /\ UNCHANGED <<log, exitCode>>
  /\ UNCHANGED <<argv, typed, fs, isCliMode, allMedia, totalSize, mode,
                 outputDir, dimIdx, i, maxWidth, job, totalOriginal,
                 totalCompressed, inflight, writes, dirsMade, chosen, failed>>

\* p.isCancel at one of the three prompts
Cancel ==
  /\ pc \in {"folderPrompt", "modePrompt", "widthPrompt"}
  /\ Exit(0, <<Event("cancel", "Cancelled", 0, <<>>, <<>>)>>)
  /\ UNCHANGED <<argv, typed, fs, folderPath, isCliMode, allMedia, totalSize,
                 mode, outputDir, dimIdx, i, maxWidth, job, totalOriginal,
                 totalCompressed, inflight, writes, dirsMade, chosen, failed>>

\* a faulty variant of FindMedia: the output directory is made before the
\* empty check and before the mode is known
FindMediaMkdirFirst ==
  /\ pc = "find"
  /\ LET media == findMedia(fs, folderPath, folderPath)
         found == Event("info", "Found", 0,
                        <<CountType(media, "image"), CountType(media, "video")>>,
                        <<formatBytes(SumSize(media, Len(media)))>>)
     IN /\ allMedia' = media
        /\ outputDir' = OutputDirOf(folderPath)
        /\ dirsMade' = dirsMade \cup {resolve(OutputDirOf(folderPath))}
        /\ IF Len(media) = 0
             THEN /\ Exit(1, <<Event("error", "No images or videos found", 0, <<>>, <<>>)>>)
                  /\ UNCHANGED <<totalSize, mode>>
             ELSE /\ totalSize' = SumSize(media, Len(media))
                  /\ exitCode' = exitCode
                  /\ IF isCliMode
                       THEN /\ mode' = "fast"
                            /\ pc' = "mkdir"
                            /\ log' = Append(log, found)
                       ELSE /\ mode' = mode
                            /\ pc' = "modePrompt"
                            /\ log' = log \o <<found, Event("prompt", "mode", 0, <<>>, <<>>)>>
  /\ UNCHANGED <<argv, typed, fs, folderPath, isCliMode, dimIdx, i,
                 maxWidth, job, totalOriginal, totalCompressed, inflight,
                 writes, chosen, failed>>

\* findMedia, the empty check, the "Found" line and the choice of the mode
FindMedia ==
  /\ pc = "find"
  /\ LET media == findMedia(fs, folderPath, folderPath)
         found == Event("info", "Found", 0,
                        <<CountType(media, "image"), CountType(media, "video")>>,
                        <<formatBytes(SumSize(media, Len(media)))>>)
     IN /\ allMedia' = media
        /\ IF Len(media) = 0
             THEN /\ Exit(1, <<Event("error", "No images or videos found", 0, <<>>, <<>>)>>)
                  /\ UNCHANGED <<totalSize, mode>>
             ELSE /\ totalSize' = SumSize(media, Len(media))
                  /\ exitCode' = exitCode
                  /\ IF isCliMode
                       THEN /\ mode' = "fast"
                            /\ pc' = "mkdir"
                            /\ log' = Append(log, found)
                       ELSE /\ mode' = mode
                            /\ pc' = "modePrompt"
                            /\ log' = log \o <<found, Event("prompt", "mode", 0, <<>>, <<>>)>>
  /\ UNCHANGED <<argv, typed, fs, folderPath, isCliMode, outputDir, dimIdx, i,
                 maxWidth, job, totalOriginal, totalCompressed, inflight,
                 writes, dirsMade, chosen, failed>>

\* getModeInteractive answered
AnswerMode ==
  /\ pc = "modePrompt"
  /\ \E m \in {"fast", "custom"} :
       /\ mode' = m
       /\ pc' = IF m = "custom" THEN "loadDims" ELSE "mkdir"
  /\ UNCHANGED <<argv, typed, fs, folderPath, isCliMode, allMedia, totalSize,
                 outputDir, dimIdx, i, maxWidth, job, totalOriginal,
                 totalCompressed, inflight, writes, dirsMade, log, chosen,
                 failed, exitCode>>

\* one iteration of loadDimensions: sharp metadata for an image;
\* getVideoDimensions for a video, whose catch turns a failure into 0x0
LoadDimension ==
  /\ pc = "loadDims"
  /\ LET file == allMedia[dimIdx]
         meta == stat(fs, file.path)
     IN \/ /\ allMedia' = [allMedia EXCEPT ![dimIdx].width = meta.width,
                                            ![dimIdx].height = meta.height]
           /\ failed' = failed
        \/ /\ file.type = "video"
           /\ allMedia' = [allMedia EXCEPT ![dimIdx].width = 0,
                                            ![dimIdx].height = 0]
           /\ failed' = failed \cup {"videoDimensions"}
  /\ dimIdx' = dimIdx + 1
  /\ pc' = IF dimIdx + 1 > Len(allMedia) THEN "mkdir" ELSE "loadDims"
  /\ UNCHANGED <<argv, typed, fs, folderPath, isCliMode, totalSize, mode,
                 outputDir, i, maxWidth, job, totalOriginal, totalCompressed,
                 inflight, writes, dirsMade, log, chosen, exitCode>>

\* the head of the for loop of main for iteration k, after the lines shown at
\* the end of the iteration before: the bound check and, in custom mode, the
\* max-width prompt being shown
EnterIteration(k, lines) ==
  IF k > Len(allMedia)
    THEN /\ pc' = "summary"
         /\ log' = log \o lines
         /\ UNCHANGED maxWidth
  ELSE IF mode = "custom"
    THEN /\ pc' = "widthPrompt"
         /\ log' = log \o lines \o <<Event("prompt", "Max width", k, <<>>, <<>>)>>
         /\ UNCHANGED maxWidth
  ELSE /\ pc' = "process"
       /\ maxWidth' = Undefined
       /\ log' = log \o lines

\* outputDir and its mkdir, the totals set to 0 and the loop entered
MkOutputDir ==
  /\ pc = "mkdir"
  /\ outputDir' = OutputDirOf(folderPath)
  /\ dirsMade' = dirsMade \cup {resolve(OutputDirOf(folderPath))}
  /\ totalOriginal' = 0
  /\ totalCompressed' = 0
  /\ i' = 1
  /\ EnterIteration(1, <<>>)
  /\ UNCHANGED <<argv, typed, fs, folderPath, isCliMode, allMedia, totalSize,
                 mode, dimIdx, job, inflight, writes, chosen, failed, exitCode>>

\* getMaxWidthInteractive answered
AnswerMaxWidth ==
  /\ pc = "widthPrompt"
  /\ \E w \in WidthChoices :
       /\ maxWidth' = w
       /\ chosen' = Append(chosen, w)
  /\ pc' = "process"
  /\ UNCHANGED <<argv, typed, fs, folderPath, isCliMode, allMedia, totalSize,
                 mode, outputDir, dimIdx, i, job, totalOriginal,
                 totalCompressed, inflight, writes, dirsMade, log, failed,
                 exitCode>>

\* a faulty variant of StartProcess: processFile is called and not awaited
StartProcessNoAwait ==
  /\ pc = "process"
  /\ job' = processFile(allMedia[i], outputDir, maxWidth)
  /\ inflight' = inflight \cup {i}
  /\ i' = i + 1
  /\ pc' = IF i + 1 > Len(allMedia) THEN "encoding" ELSE "process"
  /\ UNCHANGED <<argv, typed, fs, folderPath, isCliMode, allMedia, totalSize,
                 mode, outputDir, dimIdx, maxWidth, totalOriginal,
                 totalCompressed, writes, dirsMade, log, chosen, failed,
                 exitCode>>

\* log.progress and processFile up to the encode being awaited
StartProcess ==
  /\ pc = "process"
  /\ LET j == processFile(allMedia[i], outputDir, maxWidth) IN
       /\ job' = j
       /\ dirsMade' = dirsMade \cup {resolve(dirname(j.output))}
  /\ inflight' = inflight \cup {i}
  /\ log' = Append(log, Event("progress", "file", i, <<Len(allMedia)>>, <<>>))
  /\ pc' = "encoding"
  /\ UNCHANGED <<argv, typed, fs, folderPath, isCliMode, allMedia, totalSize,
                 mode, outputDir, dimIdx, i, maxWidth, totalOriginal,
                 totalCompressed, writes, chosen, failed, exitCode>>

\* the encode ends and has written the output file
FinishEncode ==
  /\ pc = "encoding"
  /\ \E size \in OutSizes :
       writes' = Append(writes, [path |-> resolve(job.output), src |-> i,
                                 job |-> job, size |-> size])
  /\ inflight' = inflight \ {i}
  /\ pc' = "stat"
  /\ UNCHANGED <<argv, typed, fs, folderPath, isCliMode, allMedia, totalSize,
                 mode, outputDir, dimIdx, i, maxWidth, job, totalOriginal,
                 totalCompressed, dirsMade, log, chosen, failed, exitCode>>

\* the size of the file now at a path of the output tree
OutputSize(path) ==
  LET ks == {k \in 1..Len(writes) : writes[k].path = resolve(path)}
  IN writes[CHOOSE k \in ks : \A m \in ks : m <= k].size

\* a faulty variant of Account: the compressed size is added to totalOriginal
AccountSwapped ==
  /\ pc = "stat"
  /\ LET compressedSize == OutputSize(job.output) IN
       /\ totalOriginal' = totalOriginal + compressedSize
       /\ totalCompressed' = totalCompressed + compressedSize
       /\ i' = i + 1
       /\ EnterIteration(i + 1, <<>>)
  /\ UNCHANGED <<argv, typed, fs, folderPath, isCliMode, allMedia, totalSize,
                 mode, outputDir, dimIdx, job, inflight, writes, dirsMade,
                 chosen, failed, exitCode>>

\* stat(outputPath) in processFile, the two sums, the per-file line of custom
\* mode, i++ and the head of the next iteration
Account ==
  /\ pc = "stat"
  /\ LET compressedSize == OutputSize(job.output)
         line == IF mode = "custom"
                   THEN <<Event("success", "file", i, <<>>, <<formatBytes(compressedSize)>>)>>
                   ELSE <<>>
     IN /\ totalOriginal' = totalOriginal + allMedia[i].size
        /\ totalCompressed' = totalCompressed + compressedSize
        /\ i' = i + 1
        /\ EnterIteration(i + 1, line)
  /\ UNCHANGED <<argv, typed, fs, folderPath, isCliMode, allMedia, totalSize,
                 mode, outputDir, dimIdx, job, inflight, writes, dirsMade,
                 chosen, failed, exitCode>>

\* log.done, the summary line, the output line and the outro
Summary ==
  /\ pc = "summary"
  /\ log' = log \o <<Event("success", "summary", 0, <<>>,
                           <<formatBytes(totalOriginal), formatBytes(totalCompressed)>>),
                     Event("info", "Output", 0, <<>>, <<>>)>>
  /\ pc' = "done"
  /\ exitCode' = 0
  /\ UNCHANGED <<argv, typed, fs, folderPath, isCliMode, allMedia, totalSize,
                 mode, outputDir, dimIdx, i, maxWidth, job, totalOriginal,
                 totalCompressed, inflight, writes, dirsMade, chosen, failed>>

\* a faulty variant of Throw: the failure is logged and the loop goes on to the next file
ThrowAndContinue ==
  /\ pc \in {"encoding", "stat"}
  /\ failed' = failed \cup {pc}
  /\ i' = i + 1
  /\ inflight' = {}
  /\ pc' = IF i + 1 > Len(allMedia) THEN "summary" ELSE "process"
  /\ log' = Append(log, Event("error", "exception", i, <<>>, <<>>))
  /\ UNCHANGED <<argv, typed, fs, folderPath, isCliMode, allMedia, totalSize,
                 mode, outputDir, dimIdx, maxWidth, job, totalOriginal,
                 totalCompressed, writes, dirsMade, chosen, exitCode>>

\* an awaited operation rejects (readdir or stat in findMedia, sharp metadata,
\* mkdir, the encode, stat of the output): main().catch prints the message
\* and exits with 1
Throw ==
  /\ \/ pc \in {"find", "mkdir", "encoding", "stat"}
     \/ pc = "loadDims" /\ allMedia[dimIdx].type = "image"
  /\ failed' = failed \cup {pc}
  /\ Exit(1, <<Event("error", "exception", 0, <<>>, <<>>)>>)
  /\ UNCHANGED <<argv, typed, fs, folderPath, isCliMode, allMedia, totalSize,
                 mode, outputDir, dimIdx, i, maxWidth, job, totalOriginal,
                 totalCompressed, inflight, writes, dirsMade, chosen>>

Next ==
  \/ Start
  \/ AnswerFolder
  \/ Cancel
  \/ FindMedia
  \/ AnswerMode
  \/ LoadDimension
  \/ MkOutputDir
  \/ AnswerMaxWidth
  \/ StartProcess
  \/ FinishEncode
  \/ Account
  \/ Summary
  \/ Throw

Spec == Init /\ [][Next]_vars

(***************************************************************************)
(* Properties.                                                             *)
(***************************************************************************)
IsPrefix(a, b) == Len(a) <= Len(b) /\ Take(b, Len(a)) = a

CliGiven == Len(argv) > 0 /\ Len(argv[1]) > 0

HasEvent(kind, what) == \E k \in 1..Len(log) : log[k].kind = kind /\ log[k].what = what

\* findMedia has returned
Searched == HasEvent("info", "Found") \/ HasEvent("error", "No images or videos found")

\* the name ends, ignoring case, with one of the extensions and has at least
\* one character before it
HasExtIn(name, exts) ==
  LET lower == toLowerCase(name) IN
  \E k \in 1..Len(exts) : Len(name) > Len(exts[k]) /\ EndsWith(lower, exts[k])

\* the files (not directories) at any depth below the input folder
FilesBelow(folder) ==
  LET base == ResolveSegs(folder) IN
  {k \in 1..Len(fs) :
     /\ ~fs[k].isDir
     /\ Len(fs[k].segs) > Len(base)
     /\ IsPrefix(base, fs[k].segs)}

LastSeg(segs) == segs[Len(segs)]

\* C1: findMedia(folder, folder) returns exactly the files at any depth whose
\* lower-cased extension is an image or a video extension, each once, typed
\* image or video by the list its extension is in; nothing else is returned.
FindMediaExact ==
  Searched =>
    LET expected == {k \in FilesBelow(folderPath) :
                       HasExtIn(LastSeg(fs[k].segs), IMAGE_EXTS \o VIDEO_EXTS)}
    IN /\ {ResolveSegs(allMedia[k].path) : k \in 1..Len(allMedia)}
            = {fs[k].segs : k \in expected}
       /\ Len(allMedia) = Cardinality(expected)
       /\ \A k \in 1..Len(allMedia) :
            /\ allMedia[k].type = "image" <=> HasExtIn(allMedia[k].name, IMAGE_EXTS)
            /\ allMedia[k].type = "video" <=> HasExtIn(allMedia[k].name, VIDEO_EXTS)
            /\ allMedia[k].name = LastSeg(ResolveSegs(allMedia[k].path))

\* an upper-case video two directories deep below a folder that also holds a file that is no media
FindMediaWitness ==
  /\ Searched
  /\ Len(allMedia) = 1
  /\ allMedia[1].type = "video"
  /\ allMedia[1].name = <<"c", ".", "M", "O", "V">>
  /\ Cardinality(FilesBelow(folderPath)) = 2

\* C2: every output is written to the output directory joined with the file's
\* path relative to the input folder in which only the final extension is
\* replaced (.webp for an image, .mp4 for a video); directories and the base
\* name before the last dot are unchanged.
FolderStructurePreserved ==
  LET inSegs == ResolveSegs(folderPath)
      outSegs == ResolveSegs(outputDir)
  IN \A k \in 1..Len(writes) :
       LET file == allMedia[writes[k].src]
           rel == Drop(ResolveSegs(file.path), Len(inSegs))
           name == LastSeg(rel)
           stem == Take(name, LastIndexOf(name, ".") - 1)
           ext == IF file.type = "image" THEN ExtWebp ELSE ExtMp4
       IN /\ Len(stem) > 0
          /\ Split(writes[k].path) = outSegs \o Take(rel, Len(rel) - 1) \o <<stem \o ext>>

\* a video two directories deep, below a directory with a dot in its name
FolderStructureWitness ==
  \E k \in 1..Len(writes) :
    /\ allMedia[writes[k].src].relativePath
         = <<"s", ".", "v", "/", "t", "/", "c", ".", "M", "O", "V">>
    /\ writes[k].path = <<"/", "w", "/", "d", "-", "c", "o", "m", "p", "r", "e", "s", "s", "e", "d",
                          "/", "s", ".", "v", "/", "t", "/", "c", ".", "m", "p", "4">>

\* C3: in a run that completes, distinct discovered files are written to
\* distinct output paths, and the output folder ends with one output file per
\* discovered file.
OneOutputPerFile ==
  pc = "done" =>
    /\ \A j, k \in 1..Len(writes) : j # k => writes[j].path # writes[k].path
    /\ Cardinality({writes[k].path : k \in 1..Len(writes)}) = Len(allMedia)

\* C4: the output directory is named "<input folder name>-compressed" and is
\* a child of the input folder's parent directory, never inside the input
\* folder.
OutputDirNextToInput ==
  pc \in {"widthPrompt", "process", "encoding", "stat", "summary", "done"} =>
    LET inSegs == ResolveSegs(folderPath)
        outSegs == ResolveSegs(outputDir)
    IN /\ Len(inSegs) > 0
       /\ outSegs = Take(inSegs, Len(inSegs) - 1)
                      \o <<LastSeg(inSegs) \o <<"-", "c", "o", "m", "p", "r", "e", "s", "s", "e", "d">>>>
       /\ ~IsPrefix(inSegs, outSegs)

NoResize(j) == j.resize = Undefined /\ j.vf = Undefined

\* C5: with a folder given on the command line, no prompt is ever shown,
\* dimensions are never loaded and every file is processed with no max width.
CliModeIsFast ==
  CliGiven =>
    /\ \A k \in 1..Len(log) : log[k].kind # "prompt"
    /\ pc \notin {"folderPrompt", "modePrompt", "widthPrompt", "loadDims"}
    /\ mode \in {"", "fast"}
    /\ \A k \in 1..Len(allMedia) :
         allMedia[k].width = Undefined /\ allMedia[k].height = Undefined
    /\ maxWidth = Undefined
    /\ chosen = <<>>
    /\ \A k \in 1..Len(writes) : NoResize(writes[k].job)

\* a command-line run that has completed and has written an output
CliModeWitness == CliGiven /\ pc = "done" /\ Len(writes) = 2 /\ isCliMode

OriginalWidth(file) == stat(fs, file.path).width

\* C6: in fast mode no resize is added to the image pipeline and no scale
\* filter to the video arguments; an image is encoded to WebP at quality 75
\* and a video to H.264 at CRF 28 with AAC audio, at its original width.
FastModeCompressOnly ==
  mode = "fast" =>
    /\ maxWidth = Undefined
    /\ \A k \in 1..Len(writes) :
         LET j == writes[k].job
             file == allMedia[writes[k].src]
         IN /\ NoResize(j)
            /\ TargetWidth(j, OriginalWidth(file)) = OriginalWidth(file)
            /\ file.type = "image" =>
                 j.tool = "sharp" /\ j.format = "webp" /\ j.quality = 75
            /\ file.type = "video" =>
                 /\ j.tool = "ffmpeg" /\ j.vcodec = "libx264"
                 /\ j.crf = 28 /\ j.acodec = "aac"

\* fast mode picked at the prompt, an image and a video both encoded
FastModeWitness ==
  /\ mode = "fast"
  /\ ~CliGiven
  /\ pc = "done"
  /\ \E k \in 1..Len(writes) : writes[k].job.tool = "sharp"
  /\ \E k \in 1..Len(writes) : writes[k].job.tool = "ffmpeg"

\* C7: in custom mode the width answered at the prompt of file i is the one
\* applied to file i: 0 applies no resizing, W > 0 requests the target width
\* min(W, original width), for images and videos alike.
CustomWidthPerFile ==
  mode = "custom" =>
    \A k \in 1..Len(writes) :
      LET j == writes[k].job
          file == allMedia[writes[k].src]
          iw == OriginalWidth(file)
          w == chosen[writes[k].src]
      IN /\ writes[k].src <= Len(chosen)
         /\ j.input = file.path
         /\ w = 0 => NoResize(j) /\ TargetWidth(j, iw) = iw
         /\ w > 0 =>
              /\ (IF file.type = "image" THEN j.resize ELSE j.vf) = w
              /\ TargetWidth(j, iw) = Min(w, iw)
              /\ TargetWidth(j, iw) <= iw

\* a video narrower than the width asked for, after an image kept as it is
CustomWidthWitness ==
  /\ mode = "custom"
  /\ Len(writes) = 2
  /\ chosen = <<0, 800>>
  /\ allMedia[2].type = "video"
  /\ OriginalWidth(allMedia[2]) = 640
  /\ allMedia[1].type = "image"

RECURSIVE SumInputSizes(_)
\* the sizes, in the file system, of the first k discovered files
SumInputSizes(k) ==
  IF k = 0 THEN 0 ELSE SumInputSizes(k - 1) + stat(fs, allMedia[k].path).size

RECURSIVE SumWritten(_)
\* the sizes of the first k outputs as they were written
SumWritten(k) == IF k = 0 THEN 0 ELSE SumWritten(k - 1) + writes[k].size

\* C8: after the k-th file has been processed totalOriginal is the sum of the
\* input sizes of the first k files and totalCompressed the sum of their
\* output sizes as measured when written; at completion totalOriginal is the
\* total announced in the "Found" line and every file is counted once.
ExactSums ==
  /\ i - 1 <= Len(allMedia)
  /\ i - 1 <= Len(writes)
  /\ totalOriginal = SumInputSizes(i - 1)
  /\ totalCompressed = SumWritten(i - 1)
  /\ pc = "done" =>
       /\ i - 1 = Len(allMedia)
       /\ totalOriginal = totalSize
       /\ \E f, t \in 1..Len(log) :
            /\ log[f].what = "Found"
            /\ log[t].what = "summary"
            /\ log[f].sizes[1] = formatBytes(totalSize)
            /\ log[t].sizes[1] = log[f].sizes[1]
            /\ log[t].sizes[2] = formatBytes(totalCompressed)

\* a completed run over two files whose total is shown in KB
ExactSumsWitness ==
  /\ pc = "done"
  /\ Len(allMedia) = 2
  /\ totalOriginal = 1600
  /\ totalCompressed = 2198

\* C9: at most one file is being encoded at any time, files are processed in
\* the order of the discovered list, and in custom mode the prompt of file i
\* is answered before file i is encoded and file i is encoded and accounted
\* for before the prompt of file i+1 is shown.
StrictlySequential ==
  /\ Cardinality(inflight) <= 1
  /\ pc = "encoding" => inflight = {i}
  /\ pc \in {"widthPrompt", "process", "stat", "summary", "done"} => inflight = {}
  /\ \A k \in 1..Len(writes) : writes[k].src = k
  /\ \A k \in 1..Len(log) :
       /\ log[k].kind = "progress" =>
            /\ log[k].idx = Cardinality({m \in 1..k : log[m].kind = "progress"})
            /\ mode = "custom" =>
                 /\ \E m \in 1..(k-1) : log[m].kind = "prompt" /\ log[m].idx = log[k].idx
                 /\ Len(chosen) >= log[k].idx
       /\ (log[k].kind = "prompt" /\ log[k].idx > 1) =>
            /\ \E m \in 1..(k-1) :
                 /\ log[m].kind = "success" /\ log[m].what = "file"
                 /\ log[m].idx = log[k].idx - 1
            /\ Len(writes) >= log[k].idx - 1
            /\ i >= log[k].idx
  /\ (mode = "custom" /\ pc = "widthPrompt") =>
       Len(chosen) = i - 1 /\ Len(writes) = i - 1
  /\ (mode = "custom" /\ pc \in {"process", "encoding"}) =>
       Len(chosen) = i /\ Len(writes) = i - 1 /\ maxWidth = chosen[i]

\* the second prompt of a custom run is being shown
SequentialWitness ==
  /\ mode = "custom"
  /\ pc = "widthPrompt"
  /\ i = 2
  /\ Len(writes) = 1

HasSummary == HasEvent("success", "summary")

\* C10 as claimed: once encoding a file, or reading its size or dimensions,
\* has failed, the run has exited with code 1 without a summary line.
EveryFailureIsFatal ==
  failed # {} => pc = "exited" /\ exitCode = 1 /\ ~HasSummary

\* C10 amended: a failed encode, a failed read of a size or of an image's
\* dimensions ends the run at once with exit code 1: nothing more is
\* processed, no summary line is printed, and the outputs written so far stay.
\* A failed read of a video's dimensions alone is not an error: the
\* dimensions become 0x0 and the run goes on.
FailureIsFatalExceptVideoDimensions ==
  /\ failed \ {"videoDimensions"} # {} =>
       /\ pc = "exited"
       /\ exitCode = 1
       /\ ~HasSummary
       /\ ~ENABLED Next
       /\ Cardinality(failed \ {"videoDimensions"}) = 1
       /\ Len(writes) \in {i - 1, i}
       /\ \A k \in 1..Len(writes) : writes[k].src = k
       /\ totalOriginal = SumSize(allMedia, i - 1)
  /\ failed = {"videoDimensions"} =>
       /\ exitCode # 1
       /\ \E k \in 1..Len(allMedia) :
            /\ allMedia[k].type = "video"
            /\ allMedia[k].width = 0
            /\ allMedia[k].height = 0

\* the encode of the second file fails after the first output was written
FailureWitness ==
  /\ failed = {"encoding"}
  /\ pc = "exited"
  /\ i = 2
  /\ Len(writes) = 1

\* the run ended on an invalid folder, on an empty media list or on a
\* cancellation at the folder or the mode prompt
EndedBeforeMode ==
  \/ HasEvent("error", "Invalid folder path")
  \/ HasEvent("error", "No images or videos found")
  \/ HasEvent("cancel", "Cancelled") /\ ~HasEvent("prompt", "Max width")

\* C11: whenever this run has created a directory, the folder has been
\* verified as a directory, at least one media file has been found and the
\* mode has been determined; a run that ends on an invalid folder, an empty
\* media list or a cancellation at the folder or mode prompt has created
\* nothing on disk.
OutputDirCreatedLast ==
  /\ (dirsMade # {} \/ outputDir # <<>>) =>
       /\ Len(folderPath) > 0
       /\ verifyFolder(fs, folderPath)
       /\ Len(allMedia) >= 1
       /\ HasEvent("info", "Found")
       /\ mode \in {"fast", "custom"}
       /\ ~isCliMode => HasEvent("prompt", "mode")
       /\ resolve(outputDir) \in dirsMade
  /\ EndedBeforeMode =>
       /\ pc = "exited"
       /\ dirsMade = {}
       /\ writes = <<>>
       /\ outputDir = <<>>

\* the output directory has just been made in a run whose mode was picked at
\* the prompt
OutputDirCreatedWitness ==
  /\ dirsMade = {resolve(outputDir)}
  /\ ~isCliMode
  /\ mode = "custom"
  /\ pc = "widthPrompt"
  /\ i = 1

====
